---- MODULE Spec2Model ----
(***************************************************************************)
(* Model of flight_parser.py: the record validator, the line parser, the   *)
(* query predicate and the batch orchestrator (main).                      *)
(*                                                                         *)
(* A Python str is modelled as a sequence of one-character strings, so     *)
(* that stripping, splitting, regular-expression matching, strptime,       *)
(* float() and lexicographic comparison are computed character by          *)
(* character, as the interpreter computes them.                            *)
(***************************************************************************)
EXTENDS Integers, Sequences, FiniteSets, TLC

(***************************************************************************)
(* Characters                                                              *)
(***************************************************************************)
Digits == {"0", "1", "2", "3", "4", "5", "6", "7", "8", "9"}

Upper == {"A", "B", "C", "D", "E", "F", "G", "H", "I", "J", "K", "L", "M",
          "N", "O", "P", "Q", "R", "S", "T", "U", "V", "W", "X", "Y", "Z"}

Lower == {"a", "b", "c", "d", "e", "f", "g", "h", "i", "j", "k", "l", "m",
          "n", "o", "p", "q", "r", "s", "t", "u", "v", "w", "x", "y", "z"}

\* characters removed by str.strip() and matched by \s
Whitespace == {" ", "\t", "\n", "\r", "\f"}

\* printable ASCII in code-point order: code points 32..95 and 97..126
AsciiLow ==
  <<" ", "!", "\"", "#", "$", "%", "&", "'", "(", ")", "*", "+", ",", "-",
    ".", "/", "0", "1", "2", "3", "4", "5", "6", "7", "8", "9", ":", ";",
    "<", "=", ">", "?", "@", "A", "B", "C", "D", "E", "F", "G", "H", "I",
    "J", "K", "L", "M", "N", "O", "P", "Q", "R", "S", "T", "U", "V", "W",
    "X", "Y", "Z", "[", "\\", "]", "^", "_">>

AsciiHigh ==
  <<"a", "b", "c", "d", "e", "f", "g", "h", "i", "j", "k", "l", "m", "n",
    "o", "p", "q", "r", "s", "t", "u", "v", "w", "x", "y", "z", "{", "|",
    "}", "~">>

\* the code point of every character
CodePoints ==
  [c \in {"\t", "\n", "\f", "\r"} |->
     CASE c = "\t" -> 9 [] c = "\n" -> 10 [] c = "\f" -> 12 [] c = "\r" -> 13]
  @@ [c \in {AsciiLow[i] : i \in 1..Len(AsciiLow)} |->
        31 + (CHOOSE i \in 1..Len(AsciiLow) : AsciiLow[i] = c)]
  @@ [c \in {AsciiHigh[i] : i \in 1..Len(AsciiHigh)} |->
        96 + (CHOOSE i \in 1..Len(AsciiHigh) : AsciiHigh[i] = c)]

\* ord(c)
Ord(c) == CodePoints[c]

\* int(c) of a decimal digit
DigitVal(c) == Ord(c) - 48

AllIn(s, set) == \A i \in 1..Len(s) : s[i] \in set

\* int(s) of a non-empty digit string
RECURSIVE ToInt(_)
ToInt(s) ==
  IF Len(s) = 0 THEN 0
  ELSE 10 * ToInt(SubSeq(s, 1, Len(s) - 1)) + DigitVal(s[Len(s)])

RECURSIVE Pow10(_)
Pow10(k) == IF k = 0 THEN 1 ELSE 10 * Pow10(k - 1)

\* s.lower()
ToLower(s) ==
  [i \in 1..Len(s) |->
     IF s[i] \in Upper THEN AsciiHigh[Ord(s[i]) - 64] ELSE s[i]]

\* Python's comparison of two str values: a < b, by code points
RECURSIVE StrLess(_, _)
StrLess(a, b) ==
  IF Len(b) = 0 THEN FALSE
  ELSE IF Len(a) = 0 THEN TRUE
  ELSE IF a[1] # b[1] THEN Ord(a[1]) < Ord(b[1])
  ELSE StrLess(Tail(a), Tail(b))

\* s.strip()
RECURSIVE LStrip(_)
LStrip(s) ==
  IF Len(s) > 0 /\ s[1] \in Whitespace THEN LStrip(Tail(s)) ELSE s

RECURSIVE RStrip(_)
RStrip(s) ==
  IF Len(s) > 0 /\ s[Len(s)] \in Whitespace
  THEN RStrip(SubSeq(s, 1, Len(s) - 1)) ELSE s

Strip(s) == LStrip(RStrip(s))

\* raw.rstrip("\n")
RECURSIVE RStripNewline(_)
RStripNewline(s) ==
  IF Len(s) > 0 /\ s[Len(s)] = "\n"
  THEN RStripNewline(SubSeq(s, 1, Len(s) - 1)) ELSE s

\* line.split(","): the fields between the commas, at least one
RECURSIVE SplitComma(_)
SplitComma(s) ==
  IF \A i \in 1..Len(s) : s[i] # "," THEN <<s>>
  ELSE LET k == CHOOSE i \in 1..Len(s) :
                  s[i] = "," /\ \A j \in 1..(i - 1) : s[j] # ","
       IN <<SubSeq(s, 1, k - 1)>> \o SplitComma(SubSeq(s, k + 1, Len(s)))

(***************************************************************************)
(* validate_record: regular expressions, strptime, float                   *)
(***************************************************************************)
\* the strings a pattern body may cover when the pattern ends in "$":
\* "$" matches at the end and just before one trailing newline
DollarBodies(s) ==
  IF Len(s) > 0 /\ s[Len(s)] = "\n"
  THEN {s, SubSeq(s, 1, Len(s) - 1)} ELSE {s}

\* re.match(r"^[A-Za-z0-9]{2,8}$", s)
MatchFlightId(s) ==
  \E b \in DollarBodies(s) :
     Len(b) \in 2..8 /\ AllIn(b, Upper \cup Lower \cup Digits)

\* re.match(r"^[A-Z]{3}$", s)
MatchAirport(s) ==
  \E b \in DollarBodies(s) : Len(b) = 3 /\ AllIn(b, Upper)

\* the directive patterns of _strptime for %m, %d, %H, %M
TokMonth(t) ==
  \/ Len(t) = 2 /\ t[1] = "1" /\ t[2] \in {"0", "1", "2"}
  \/ Len(t) = 2 /\ t[1] = "0" /\ t[2] \in Digits \ {"0"}
  \/ Len(t) = 1 /\ t[1] \in Digits \ {"0"}

TokDay(t) ==
  \/ Len(t) = 2 /\ t[1] = "3" /\ t[2] \in {"0", "1"}
  \/ Len(t) = 2 /\ t[1] \in {"1", "2"} /\ t[2] \in Digits
  \/ Len(t) = 2 /\ t[1] = "0" /\ t[2] \in Digits \ {"0"}
  \/ Len(t) = 1 /\ t[1] \in Digits \ {"0"}
  \/ Len(t) = 2 /\ t[1] = " " /\ t[2] \in Digits \ {"0"}

TokHour(t) ==
  \/ Len(t) = 2 /\ t[1] = "2" /\ t[2] \in {"0", "1", "2", "3"}
  \/ Len(t) = 2 /\ t[1] \in {"0", "1"} /\ t[2] \in Digits
  \/ Len(t) = 1 /\ t[1] \in Digits

TokMinute(t) ==
  \/ Len(t) = 2 /\ t[1] \in {"0", "1", "2", "3", "4", "5"} /\ t[2] \in Digits
  \/ Len(t) = 1 /\ t[1] \in Digits

IsLeap(y) == (y % 4 = 0 /\ y % 100 # 0) \/ y % 400 = 0

DaysInMonth(y, m) ==
  IF m = 2 THEN (IF IsLeap(y) THEN 29 ELSE 28)
  ELSE IF m \in {4, 6, 9, 11} THEN 30 ELSE 31

\* The ways the pattern compiled from "%Y-%m-%d %H:%M",
\*   (\d\d\d\d)-(%m)-(%d)\s+(%H):(%M),
\* covers the whole of s: the lengths <<lm, ld, lh, lM>> of the month, day,
\* hour and minute parts; the run of blanks between day and hour takes the
\* rest.  The separators make the split unique when it exists.
BlankLen(s, c) == Len(s) - (4 + 1 + c[1] + 1 + c[2] + c[3] + 1 + c[4])

StrpSplits(s) ==
  {c \in (1..2) \X (1..2) \X (1..2) \X (1..2) :
     LET lm == c[1]
         ld == c[2]
         lw == BlankLen(s, c)
         lh == c[3]
         lM == c[4]
         pm == 6
         pd == pm + lm + 1
         pw == pd + ld
         ph == pw + lw
         pM == ph + lh + 1
     IN /\ lw >= 1
        /\ s[5] = "-"
        /\ s[pm + lm] = "-"
        /\ s[ph + lh] = ":"
        /\ AllIn(SubSeq(s, 1, 4), Digits)
        /\ TokMonth(SubSeq(s, pm, pm + lm - 1))
        /\ TokDay(SubSeq(s, pd, pd + ld - 1))
        /\ AllIn(SubSeq(s, pw, pw + lw - 1), Whitespace)
        /\ TokHour(SubSeq(s, ph, ph + lh - 1))
        /\ TokMinute(SubSeq(s, pM, pM + lM - 1))}

\* the (year, month, day, hour, minute) read by a split
StrpValues(s, c) ==
  LET pm == 6
      pd == pm + c[1] + 1
      pw == pd + c[2]
      ph == pw + BlankLen(s, c)
      pM == ph + c[3] + 1
  IN [Y |-> ToInt(SubSeq(s, 1, 4)),
      m |-> ToInt(SubSeq(s, pm, pm + c[1] - 1)),
      d |-> ToInt(LStrip(SubSeq(s, pd, pd + c[2] - 1))),
      H |-> ToInt(SubSeq(s, ph, ph + c[3] - 1)),
      M |-> ToInt(SubSeq(s, pM, pM + c[4] - 1))]

\* datetime.strptime(s, "%Y-%m-%d %H:%M"): ok is False when it raises;
\* otherwise t is the datetime, as minutes on a calendar in which every
\* month has 32 days, which is order-isomorphic to datetime's own ordering
NoDatetime == [ok |-> FALSE, t |-> 0]

Strptime(s) ==
  LET splits == StrpSplits(s)
  IN IF splits = {} THEN NoDatetime
     ELSE LET v == StrpValues(s, CHOOSE c \in splits : TRUE)
          IN IF v.Y >= 1 /\ v.d <= DaysInMonth(v.Y, v.m)
             THEN [ok |-> TRUE,
                   t |-> (((v.Y * 13 + v.m) * 32 + v.d) * 24 + v.H) * 60
                           + v.M]
             ELSE NoDatetime

StrpOk(s) == Strptime(s).ok

StrpTime(s) == Strptime(s).t

\* float(s) on the decimal forms [ws][sign](digits[.digits]|.digits)[ws]
\* and on nan / inf / infinity (any case); exponents and underscores are
\* not modelled.  A finite value is the exact fraction n / d.
FloatBody(s) ==
  LET t == Strip(s)
  IN IF Len(t) > 0 /\ t[1] \in {"+", "-"} THEN Tail(t) ELSE t

FloatNeg(s) == LET t == Strip(s) IN Len(t) > 0 /\ t[1] = "-"

Word_nan == <<"n", "a", "n">>
Word_inf == <<"i", "n", "f">>
Word_infinity == <<"i", "n", "f", "i", "n", "i", "t", "y">>

IsDecimal(b) ==
  /\ AllIn(b, Digits \cup {"."})
  /\ Cardinality({i \in 1..Len(b) : b[i] = "."}) <= 1
  /\ \E i \in 1..Len(b) : b[i] \in Digits

\* float(s) returns (does not raise)
FloatOk(s) ==
  LET b == FloatBody(s)
  IN ToLower(b) \in {Word_nan, Word_inf, Word_infinity} \/ IsDecimal(b)

\* the value of float(s): kind is "nan", "inf" (signed by n) or "fin"
FloatVal(s) ==
  LET b == FloatBody(s)
      sg == IF FloatNeg(s) THEN -1 ELSE 1
  IN IF ToLower(b) = Word_nan THEN [kind |-> "nan", n |-> 0, d |-> 1]
     ELSE IF ToLower(b) \in {Word_inf, Word_infinity}
          THEN [kind |-> "inf", n |-> sg, d |-> 1]
     ELSE LET digs == SelectSeq(b, LAMBDA ch : ch \in Digits)
              dots == {i \in 1..Len(b) : b[i] = "."}
              frac == IF dots = {} THEN 0
                      ELSE Len(b) - (CHOOSE i \in dots : TRUE)
          IN [kind |-> "fin", n |-> sg * ToInt(digs), d |-> Pow10(frac)]

\* x > y on floats; every comparison with nan is False
FloatGT(x, y) ==
  IF x.kind = "nan" \/ y.kind = "nan" THEN FALSE
  ELSE IF x.kind = "inf" THEN x.n > 0 /\ ~(y.kind = "inf" /\ y.n > 0)
  ELSE IF y.kind = "inf" THEN y.n < 0
  ELSE x.n * y.d > y.n * x.d

FloatZero == [kind |-> "fin", n |-> 0, d |-> 1]

\* the reasons, in the order validate_record appends them
AllReasons ==
  <<"Invalid flight_id", "Invalid origin", "Invalid destination",
    "Invalid departure_datetime", "Invalid arrival_datetime",
    "Arrival not after departure", "Invalid price">>

\* "return the list with x appended if cond": errors.append under an if
AppendIf(errs, cond, x) == IF cond THEN Append(errs, x) ELSE errs

\* price_val = float(price); price_val > 0.0 -- or float raised
PriceOk(price) == FloatOk(price) /\ FloatGT(FloatVal(price), FloatZero)

\* validate_record returning at the first rule that fails
validate_record_first_failure_only(fields) ==
  LET dep_dt_obj == Strptime(fields[4])
      arr_dt_obj == Strptime(fields[5])
  IN IF ~MatchFlightId(fields[1]) THEN <<"Invalid flight_id">>
     ELSE IF ~MatchAirport(fields[2]) THEN <<"Invalid origin">>
     ELSE IF ~MatchAirport(fields[3]) THEN <<"Invalid destination">>
     ELSE IF ~dep_dt_obj.ok THEN <<"Invalid departure_datetime">>
     ELSE IF ~arr_dt_obj.ok THEN <<"Invalid arrival_datetime">>
     ELSE IF ~(arr_dt_obj.t > dep_dt_obj.t)
          THEN <<"Arrival not after departure">>
     ELSE IF ~PriceOk(fields[6]) THEN <<"Invalid price">>
     ELSE <<>>

\* validate_record comparing arrival with departure as soon as one of the
\* two datetimes parsed
validate_record_compare_if_either_parsed(fields) ==
  LET dep_dt_obj == Strptime(fields[4])
      arr_dt_obj == Strptime(fields[5])
      e1 == AppendIf(<<>>, ~MatchFlightId(fields[1]), "Invalid flight_id")
      e2 == AppendIf(e1, ~MatchAirport(fields[2]), "Invalid origin")
      e3 == AppendIf(e2, ~MatchAirport(fields[3]), "Invalid destination")
      e4 == AppendIf(e3, ~dep_dt_obj.ok, "Invalid departure_datetime")
      e5 == AppendIf(e4, ~arr_dt_obj.ok, "Invalid arrival_datetime")
      e6 == AppendIf(e5,
                     /\ dep_dt_obj.ok \/ arr_dt_obj.ok
                     /\ ~(arr_dt_obj.t > dep_dt_obj.t),
                     "Arrival not after departure")
      e7 == AppendIf(e6, ~PriceOk(fields[6]), "Invalid price")
  IN e7

validate_record(fields) ==
  LET flight_id == fields[1]
      origin == fields[2]
      destination == fields[3]
      dep_dt == fields[4]
      arr_dt == fields[5]
      price == fields[6]
      dep_dt_obj == Strptime(dep_dt)
      arr_dt_obj == Strptime(arr_dt)
      e1 == AppendIf(<<>>, ~MatchFlightId(flight_id), "Invalid flight_id")
      e2 == AppendIf(e1, ~MatchAirport(origin), "Invalid origin")
      e3 == AppendIf(e2, ~MatchAirport(destination), "Invalid destination")
      e4 == AppendIf(e3, ~dep_dt_obj.ok, "Invalid departure_datetime")
      e5 == AppendIf(e4, ~arr_dt_obj.ok, "Invalid arrival_datetime")
      e6 == AppendIf(e5,
                     /\ dep_dt_obj.ok
                     /\ arr_dt_obj.ok
                     /\ ~(arr_dt_obj.t > dep_dt_obj.t),
                     "Arrival not after departure")
      e7 == AppendIf(e6, ~PriceOk(price), "Invalid price")
  IN e7

(***************************************************************************)
(* Flight records, queries and flight_matches_query                        *)
(***************************************************************************)
FieldNames ==
  <<"flight_id", "origin", "destination", "departure_datetime",
    "arrival_datetime", "price">>

\* MakeFlight with flight_id and origin taken from each other's column
MakeFlight_columns_swapped(parts) ==
  [flight_id |-> parts[2],
   origin |-> parts[1],
   destination |-> parts[3],
   departure_datetime |-> parts[4],
   arrival_datetime |-> parts[5],
   price |-> parts[6]]

\* the dict built from the six trimmed fields of an accepted line
MakeFlight(parts) ==
  [flight_id |-> parts[1],
   origin |-> parts[2],
   destination |-> parts[3],
   departure_datetime |-> parts[4],
   arrival_datetime |-> parts[5],
   price |-> parts[6]]

\* the six stored fields of a record, in validate_record's order
FlightFields(f) == [i \in 1..6 |-> f[FieldNames[i]]]

\* f.get("price", "0")
GetPrice(f) == IF "price" \in DOMAIN f THEN f["price"] ELSE <<"0">>

\* the body of the try block of the price filter: True when the function
\* goes on to the next filter, False when it returns False (float() raised
\* on either price, or the record's price is greater)
PriceFilterPasses(f, q) ==
  /\ FloatOk(q["price"])
  /\ FloatOk(GetPrice(f))
  /\ ~FloatGT(FloatVal(GetPrice(f)), FloatVal(q["price"]))

flight_matches_query(f, q) ==
  IF \E key \in {"flight_id", "origin", "destination"} :
       key \in DOMAIN q /\ f[key] # q[key]
  THEN FALSE
  ELSE IF "price" \in DOMAIN q /\ ~PriceFilterPasses(f, q)
  THEN FALSE
  ELSE IF /\ "departure_datetime" \in DOMAIN q
          /\ StrLess(f["departure_datetime"], q["departure_datetime"])
  THEN FALSE
  ELSE IF /\ "arrival_datetime" \in DOMAIN q
          /\ StrLess(q["arrival_datetime"], f["arrival_datetime"])
  THEN FALSE
  ELSE TRUE

\* Matches collecting the matching records in reverse order
RECURSIVE Matches_reversed(_, _)
Matches_reversed(fl, qq) ==
  IF fl = <<>> THEN <<>>
  ELSE IF flight_matches_query(Head(fl), qq)
       THEN Matches_reversed(Tail(fl), qq) \o <<Head(fl)>>
       ELSE Matches_reversed(Tail(fl), qq)

\* matches = [f for f in flights if flight_matches_query(f, q)]
RECURSIVE Matches(_, _)
Matches(fl, q) ==
  IF fl = <<>> THEN <<>>
  ELSE IF flight_matches_query(Head(fl), q)
       THEN <<Head(fl)>> \o Matches(Tail(fl), q)
       ELSE Matches(Tail(fl), q)

\* the results list built by the loop of run_queries_and_write_response
RECURSIVE RunQueries(_, _)
RunQueries(fl, qs) ==
  IF qs = <<>> THEN <<>>
  ELSE <<[query |-> Head(qs), matches |-> Matches(fl, Head(qs))]>>
         \o RunQueries(fl, Tail(qs))

(***************************************************************************)
(* Inputs                                                                  *)
(***************************************************************************)
\* 'AB12'
FID_ok == <<"A", "B", "1", "2">>

\* 'CD3'
FID_ok2 == <<"C", "D", "3">>

\* 'A!'
FID_bang == <<"A", "!">>

\* 'A'
FID_short == <<"A">>

\* 'AB12\n'
FID_newline == <<"A", "B", "1", "2", "\n">>

\* 'JFK'
AP_JFK == <<"J", "F", "K">>

\* 'LAX'
AP_LAX == <<"L", "A", "X">>

\* 'jkf'
AP_lower == <<"j", "k", "f">>

\* 'JFKX'
AP_long == <<"J", "F", "K", "X">>

\* '2025-12-01 09:00'
DT_dec1_0900 == <<"2", "0", "2", "5", "-", "1", "2", "-", "0", "1", " ",
  "0", "9", ":", "0", "0">>

\* '2025-12-01 12:00'
DT_dec1_1200 == <<"2", "0", "2", "5", "-", "1", "2", "-", "0", "1", " ",
  "1", "2", ":", "0", "0">>

\* '2025-9-01 09:00'
DT_sep1_unpadded == <<"2", "0", "2", "5", "-", "9", "-", "0", "1", " ",
  "0", "9", ":", "0", "0">>

\* '2025-10-01 08:00'
DT_oct1_0800 == <<"2", "0", "2", "5", "-", "1", "0", "-", "0", "1", " ",
  "0", "8", ":", "0", "0">>

\* '2025/12/01 09:00'
DT_slashes == <<"2", "0", "2", "5", "/", "1", "2", "/", "0", "1", " ", "0",
  "9", ":", "0", "0">>

\* '2025-02-29 09:00'
DT_feb29 == <<"2", "0", "2", "5", "-", "0", "2", "-", "2", "9", " ", "0",
  "9", ":", "0", "0">>

\* '2025-10-01 00:00'
DT_oct1_0000 == <<"2", "0", "2", "5", "-", "1", "0", "-", "0", "1", " ",
  "0", "0", ":", "0", "0">>

\* '2025-12-31 00:00'
DT_dec31_0000 == <<"2", "0", "2", "5", "-", "1", "2", "-", "3", "1", " ",
  "0", "0", ":", "0", "0">>

\* '199.99'
PR_199_99 == <<"1", "9", "9", ".", "9", "9">>

\* '250.00'
PR_250 == <<"2", "5", "0", ".", "0", "0">>

\* '200'
PR_200 == <<"2", "0", "0">>

\* '-10'
PR_neg == <<"-", "1", "0">>

\* '0'
PR_zero == <<"0">>

\* 'abc'
PR_abc == <<"a", "b", "c">>

\* 'nan'
PR_nan == <<"n", "a", "n">>

\* 'inf'
PR_inf == <<"i", "n", "f">>

\* '  \n'
LN_blank == <<" ", " ", "\n">>

\* ' #A,B,C,D,E,F\n'
LN_comment == <<" ", "#", "A", ",", "B", ",", "C", ",", "D", ",", "E", ",",
  "F", "\n">>

\* 'AB12,JFK\n'
LN_short == <<"A", "B", "1", "2", ",", "J", "F", "K", "\n">>

\* 'A!,jkf,LAX,2025-12-01 09:00,2025-12-01 08:00,-10\n'
LN_invalid == <<"A", "!", ",", "j", "k", "f", ",", "L", "A", "X", ",", "2",
  "0", "2", "5", "-", "1", "2", "-", "0", "1", " ", "0", "9", ":", "0",
  "0", ",", "2", "0", "2", "5", "-", "1", "2", "-", "0", "1", " ", "0",
  "8", ":", "0", "0", ",", "-", "1", "0", "\n">>

\* 'AB12, JFK ,LAX,2025-12-01 09:00,2025-12-01 12:00,199.99\n'
LN_valid == <<"A", "B", "1", "2", ",", " ", "J", "F", "K", " ", ",", "L",
  "A", "X", ",", "2", "0", "2", "5", "-", "1", "2", "-", "0", "1", " ",
  "0", "9", ":", "0", "0", ",", "2", "0", "2", "5", "-", "1", "2", "-",
  "0", "1", " ", "1", "2", ":", "0", "0", ",", "1", "9", "9", ".", "9",
  "9", "\n">>

\* 'CD3,LAX,JFK,2025-9-01 09:00,2025-10-01 08:00,250.00'
LN_valid2 == <<"C", "D", "3", ",", "L", "A", "X", ",", "J", "F", "K", ",",
  "2", "0", "2", "5", "-", "9", "-", "0", "1", " ", "0", "9", ":", "0",
  "0", ",", "2", "0", "2", "5", "-", "1", "0", "-", "0", "1", " ", "0",
  "8", ":", "0", "0", ",", "2", "5", "0", ".", "0", "0">>

\* 'a.csv'
FN_a == <<"a", ".", "c", "s", "v">>

\* 'b.csv'
FN_b == <<"b", ".", "c", "s", "v">>

\* 'b.txt'
FN_txt == <<"b", ".", "t", "x", "t">>


\* a key that a query does not hold
Absent == <<"<absent>">>

\* the query dict holding the keys whose value is not Absent
MakeQuery(a) ==
  [k \in {FieldNames[i] : i \in {j \in 1..6 : a[j] # Absent}} |->
     a[CHOOSE i \in 1..6 : FieldNames[i] = k]]

\* bounds of the model
MaxLines == 3
MaxBatchLines == 3
MaxQueries == 2

\* the raw lines a source may hold
Lines == {LN_blank, LN_comment, LN_short, LN_invalid, LN_valid, LN_valid2}

\* the names a -d directory may hold
FileNames == {FN_a, FN_b, FN_txt}

\* record lists a -j file may hold: taken as they are, never validated
LoadedDbs ==
  {<<>>,
   <<MakeFlight(<<FID_ok, AP_JFK, AP_LAX, DT_dec1_0900, DT_dec1_1200,
                  PR_199_99>>)>>,
   <<MakeFlight(<<FID_bang, AP_JFK, AP_LAX, DT_slashes, DT_dec1_1200,
                  PR_abc>>),
     MakeFlight(<<FID_ok2, AP_LAX, AP_JFK, DT_sep1_unpadded, DT_oct1_0800,
                  PR_250>>)>>}

\* the queries a -q file may hold: objects whose filter values are strings
FileQueries ==
  {MakeQuery(<<Absent, AP_JFK, Absent, Absent, Absent, Absent>>),
   MakeQuery(<<Absent, Absent, Absent, DT_oct1_0000, Absent, Absent>>)}

RECURSIVE SeqsUpTo(_, _)
SeqsUpTo(S, n) ==
  IF n = 0 THEN {<<>>}
  ELSE LET shorter == SeqsUpTo(S, n - 1)
       IN shorter \cup {Append(t, x) : t \in shorter, x \in S}

QueryLists == SeqsUpTo(FileQueries, MaxQueries)

(***************************************************************************)
(* State                                                                   *)
(***************************************************************************)
VARIABLES
  args,          \* the parsed command line: which flags were given
  pc,            \* position in main / parse_csv_file
  flights,       \* main: the record set
  all_errors,    \* main: the merged error entries
  next_ln,       \* main: the line counter threaded through the sources
  had_parsing,   \* main: -i or -d was given
  files,         \* main: the sorted *.csv paths not yet parsed
  ret,           \* where main continues after parse_csv_file returns
  start_line_no, \* parse_csv_file: its argument
  ln,            \* parse_csv_file: the line number of the next line
  valid,         \* parse_csv_file: records accepted so far
  errors,        \* parse_csv_file: error entries so far
  raw,           \* parse_csv_file: the line last read
  fh,            \* the source being read: its length and the position
  db_json,       \* artifact written by write_db_json
  errors_txt,    \* artifact written by write_errors_txt
  response,      \* artifact written by run_queries_and_write_response
  queries,       \* the list returned by load_queries
  exit_code,     \* the exit status of the process, -1 while it runs
  stderr,        \* the diagnostic printed before a non-zero exit
  fields,        \* validate_record: its argument
  issues,        \* validate_record: its result
  q,             \* flight_matches_query: the query
  matched,       \* flight_matches_query: its result
  done           \* which of the two functions have been applied

mainVars ==
  <<args, pc, flights, all_errors, next_ln, had_parsing, files, ret,
    start_line_no, ln, valid, errors, raw, fh, db_json, errors_txt,
    response, queries, exit_code, stderr>>

fnVars == <<fields, issues, q, matched, done>>

vars == <<mainVars, fnVars>>

parseVars == <<start_line_no, ln, valid, errors, raw, fh>>

artifactVars == <<db_json, errors_txt, response, queries>>

NoArtifact == [written |-> FALSE, data |-> <<>>]

Artifact(data) == [written |-> TRUE, data |-> data]

\* every flag is absent or names a path; what is at the path is found out
\* when main gets to it
ArgSets ==
  [input_file : {"none", "path"},
   input_dir : {"none", "path"},
   json_db : {"none", "path"},
   query_file : {"none", "path"}]

\* the state of main's and parse_csv_file's variables before main runs
MainIdle ==
  /\ flights = <<>>
  /\ all_errors = <<>>
  /\ next_ln = 1
  /\ had_parsing = FALSE
  /\ files = <<>>
  /\ ret = "none"
  /\ start_line_no = 1
  /\ ln = 1
  /\ valid = <<>>
  /\ errors = <<>>
  /\ raw = <<>>
  /\ fh = [open |-> FALSE, n |-> 0, pos |-> 0]
  /\ db_json = NoArtifact
  /\ errors_txt = NoArtifact
  /\ response = NoArtifact
  /\ queries = NoArtifact
  /\ exit_code = -1
  /\ stderr = ""

FnIdle ==
  /\ fields = <<>>
  /\ issues = <<>>
  /\ q = MakeQuery(<<Absent, Absent, Absent, Absent, Absent, Absent>>)
  /\ matched = FALSE
  /\ done = {}

Init ==
  /\ args \in ArgSets
  /\ pc = "main"
  /\ MainIdle
  /\ FnIdle

(***************************************************************************)
(* parse_csv_file                                                          *)
(***************************************************************************)
\* ", ".join(issues): the pieces of the joined string, in order
RECURSIVE Join(_)
Join(items) ==
  IF Len(items) <= 1 THEN items
  ELSE <<Head(items), ", ">> \o Join(Tail(items))

\* parts = [p.strip() for p in line.split(",")]
Parts(line) ==
  LET sp == SplitComma(line) IN [i \in 1..Len(sp) |-> Strip(sp[i])]

\* ParseLine looking for "#" at the start of the line as read, not of its
\* stripped content
ParseLine_comment_not_stripped(r, v, e, l) ==
  LET line == RStripNewline(r)
      stripped == Strip(line)
      parts == Parts(line)
  IN IF stripped = <<>>
     THEN [valid |-> v, errors |-> e, ln |-> l + 1]
     ELSE IF line[1] = "#"
     THEN [valid |-> v,
           errors |-> Append(e, <<l, line, <<"Comment">>>>),
           ln |-> l + 1]
     ELSE IF Len(parts) # 6
     THEN [valid |-> v,
           errors |-> Append(e, <<l, line, <<"Invalid number of fields">>>>),
           ln |-> l + 1]
     ELSE IF validate_record(parts) # <<>>
     THEN [valid |-> v,
           errors |-> Append(e, <<l, line, Join(validate_record(parts))>>),
           ln |-> l + 1]
     ELSE [valid |-> Append(v, MakeFlight(parts)),
           errors |-> e,
           ln |-> l + 1]

\* one iteration of the for loop over the lines of the file: the values of
\* valid, errors and ln after the line r has been handled
ParseLine(r, v, e, l) ==
  LET line == RStripNewline(r)
      stripped == Strip(line)
      parts == Parts(line)
  IN IF stripped = <<>>
     THEN [valid |-> v, errors |-> e, ln |-> l + 1]
     ELSE IF stripped[1] = "#"
     THEN [valid |-> v,
           errors |-> Append(e, <<l, line, <<"Comment">>>>),
           ln |-> l + 1]
     ELSE IF Len(parts) # 6
     THEN [valid |-> v,
           errors |-> Append(e, <<l, line, <<"Invalid number of fields">>>>),
           ln |-> l + 1]
     ELSE IF validate_record(parts) # <<>>
     THEN [valid |-> v,
           errors |-> Append(e, <<l, line, Join(validate_record(parts))>>),
           ln |-> l + 1]
     ELSE [valid |-> Append(v, MakeFlight(parts)),
           errors |-> e,
           ln |-> l + 1]

\* the process ends with the given status after printing a diagnostic
Exit(code, msg) ==
  /\ pc' = "exit"
  /\ exit_code' = code
  /\ stderr' = msg

\* the counter rewound to the first line for every source
StartLineNo_reset == next_ln - (next_ln - 1)

\* the line number parse_csv_file is called with: start_line_no=next_ln
StartLineNo == next_ln

\* main calls parse_csv_file in a try block: open() raises, or the loop
\* starts over a source of some number of lines
CallParse(after) ==
  \/ /\ Exit(2, "Error parsing file")
     /\ UNCHANGED <<parseVars, ret>>
  \/ /\ \E n \in 0..MaxLines :
          /\ (next_ln - 1) + n <= MaxBatchLines
          /\ fh' = [open |-> TRUE, n |-> n, pos |-> 0]
     /\ start_line_no' = StartLineNo
     /\ ln' = StartLineNo
     /\ valid' = <<>>
     /\ errors' = <<>>
     /\ raw' = <<>>
     /\ ret' = after
     /\ pc' = "parse"
     /\ UNCHANGED <<exit_code, stderr>>

\* only the last line of a file can lack its newline
EndsLine(r) == Len(r) > 0 /\ r[Len(r)] = "\n"

\* ReadLine ending the run at a line that fails validation
ReadLine_rejected_line_is_fatal ==
  /\ pc = "parse"
  /\ fh.pos < fh.n
  /\ \E r \in Lines :
       LET out == ParseLine(r, valid, errors, ln)
       IN /\ EndsLine(r) \/ fh.pos + 1 = fh.n
          /\ raw' = r
          /\ valid' = out.valid
          /\ errors' = out.errors
          /\ ln' = out.ln
          /\ IF /\ out.errors # errors
                /\ out.errors[Len(out.errors)][3] # <<"Comment">>
             THEN Exit(2, "Rejected line")
             ELSE UNCHANGED <<pc, exit_code, stderr>>
  /\ fh' = [fh EXCEPT !.pos = @ + 1]
  /\ UNCHANGED <<args, flights, all_errors, next_ln, had_parsing, files,
                 ret, start_line_no, artifactVars, fnVars>>

\* for raw in fh: one line is read and handled
ReadLine ==
  /\ pc = "parse"
  /\ fh.pos < fh.n
  /\ \E r \in Lines :
       LET out == ParseLine(r, valid, errors, ln)
       IN /\ EndsLine(r) \/ fh.pos + 1 = fh.n
          /\ raw' = r
          /\ valid' = out.valid
          /\ errors' = out.errors
          /\ ln' = out.ln
  /\ fh' = [fh EXCEPT !.pos = @ + 1]
  /\ UNCHANGED <<args, pc, flights, all_errors, next_ln, had_parsing, files,
                 ret, start_line_no, artifactVars, exit_code, stderr, fnVars>>

\* the file is exhausted: return valid, errors, ln; main extends its lists
ParseReturn ==
  /\ pc = "parse"
  /\ fh.pos = fh.n
  /\ flights' = flights \o valid
  /\ all_errors' = all_errors \o errors
  /\ next_ln' = ln
  /\ fh' = [fh EXCEPT !.open = FALSE]
  /\ pc' = ret
  /\ UNCHANGED <<args, had_parsing, files, ret, start_line_no, ln, valid,
                 errors, raw, artifactVars, exit_code, stderr, fnVars>>

(***************************************************************************)
(* main                                                                    *)
(***************************************************************************)
\* s.endswith(".csv"): what the pattern "*.csv" selects
EndsWithCsv(s) ==
  Len(s) >= 4 /\ SubSeq(s, Len(s) - 3, Len(s)) = <<".", "c", "s", "v">>

\* sorted(names): ascending by str comparison
RECURSIVE Sorted(_)
Sorted(S) ==
  IF S = {} THEN <<>>
  ELSE LET least == CHOOSE x \in S : \A y \in S \ {x} : StrLess(x, y)
       IN <<least>> \o Sorted(S \ {least})

\* files = sorted(glob.glob(os.path.join(args.input_dir, "*.csv")))
GlobCsv(listing) == Sorted({name \in listing : EndsWithCsv(name)})

\* if args.json_db: flights = load_db_json(...), parsing is skipped
LoadDb ==
  /\ pc = "main"
  /\ args.json_db # "none"
  /\ \/ /\ Exit(2, "JSON DB file not found")
        /\ UNCHANGED flights
     \/ /\ Exit(2, "Failed to load JSON DB")
        /\ UNCHANGED flights
     \/ /\ \E loaded \in LoadedDbs : flights' = loaded
        /\ pc' = "write_errors"
        /\ UNCHANGED <<exit_code, stderr>>
  /\ UNCHANGED <<args, all_errors, next_ln, had_parsing, files, ret,
                 parseVars, artifactVars, fnVars>>

\* else: had_parsing = False; next_ln = 1
StartParsing ==
  /\ pc = "main"
  /\ args.json_db = "none"
  /\ had_parsing' = FALSE
  /\ next_ln' = 1
  /\ pc' = "input_file"
  /\ UNCHANGED <<args, flights, all_errors, files, ret, parseVars,
                 artifactVars, exit_code, stderr, fnVars>>

\* if args.input_file: ... parse_csv_file(args.input_file, next_ln)
InputFile ==
  /\ pc = "input_file"
  /\ IF args.input_file = "none"
     THEN /\ pc' = "input_dir"
          /\ UNCHANGED <<had_parsing, ret, parseVars, exit_code, stderr>>
     ELSE /\ had_parsing' = TRUE
          /\ \/ /\ Exit(2, "Input file not found")
                /\ UNCHANGED <<ret, parseVars>>
             \/ CallParse("input_dir")
  /\ UNCHANGED <<args, flights, all_errors, next_ln, files, artifactVars,
                 fnVars>>

\* if args.input_dir: ... files = sorted(glob.glob(pattern))
InputDir ==
  /\ pc = "input_dir"
  /\ IF args.input_dir = "none"
     THEN /\ pc' = "check_query"
          /\ UNCHANGED <<had_parsing, files, exit_code, stderr>>
     ELSE /\ had_parsing' = TRUE
          /\ \/ /\ Exit(2, "Input directory not found")
                /\ UNCHANGED files
             \/ /\ \E listing \in SUBSET FileNames :
                     files' = GlobCsv(listing)
                /\ pc' = "dir_loop"
                /\ UNCHANGED <<exit_code, stderr>>
  /\ UNCHANGED <<args, flights, all_errors, next_ln, ret, parseVars,
                 artifactVars, fnVars>>

\* for fpath in files: parse_csv_file(fpath, start_line_no=next_ln)
DirLoop ==
  /\ pc = "dir_loop"
  /\ IF files = <<>>
     THEN /\ pc' = "check_query"
          /\ UNCHANGED <<files, ret, parseVars, exit_code, stderr>>
     ELSE /\ files' = Tail(files)
          /\ CallParse("dir_loop")
  /\ UNCHANGED <<args, flights, all_errors, next_ln, had_parsing,
                 artifactVars, fnVars>>

\* CheckQuery letting every invocation through
CheckQuery_no_check ==
  /\ pc = "check_query"
  /\ pc' = "write_db"
  /\ UNCHANGED <<args, flights, all_errors, next_ln, had_parsing, files,
                 ret, parseVars, artifactVars, exit_code, stderr, fnVars>>

\* if args.query_file and not had_parsing and not args.json_db: exit
CheckQuery ==
  /\ pc = "check_query"
  /\ IF args.query_file # "none" /\ ~had_parsing /\ args.json_db = "none"
     THEN Exit(2, "-q used without loading a DB or parsing CSVs")
     ELSE /\ pc' = "write_db"
          /\ UNCHANGED <<exit_code, stderr>>
  /\ UNCHANGED <<args, flights, all_errors, next_ln, had_parsing, files,
                 ret, parseVars, artifactVars, fnVars>>

\* write_db_json(flights, db_path), which may raise
WriteDb ==
  /\ pc = "write_db"
  /\ \/ /\ db_json' = Artifact(flights)
        /\ pc' = "write_errors"
        /\ UNCHANGED <<exit_code, stderr>>
     \/ /\ Exit(2, "Error writing DB file")
        /\ UNCHANGED db_json
  /\ UNCHANGED <<args, flights, all_errors, next_ln, had_parsing, files,
                 ret, parseVars, errors_txt, response, queries, fnVars>>

\* if all_errors: write_errors_txt(all_errors), which may raise
WriteErrors ==
  /\ pc = "write_errors"
  /\ IF all_errors = <<>>
     THEN /\ pc' = "queries"
          /\ UNCHANGED <<errors_txt, exit_code, stderr>>
     ELSE \/ /\ errors_txt' = Artifact(all_errors)
             /\ pc' = "queries"
             /\ UNCHANGED <<exit_code, stderr>>
          \/ /\ Exit(2, "Error writing errors file")
             /\ UNCHANGED errors_txt
  /\ UNCHANGED <<args, flights, all_errors, next_ln, had_parsing, files,
                 ret, parseVars, db_json, response, queries, fnVars>>

\* if args.query_file: ... queries = load_queries(args.query_file)
LoadQueries ==
  /\ pc = "queries"
  /\ IF args.query_file = "none"
     THEN /\ Exit(0, "")
          /\ UNCHANGED queries
     ELSE IF flights = <<>>
     THEN /\ Exit(2, "No flights loaded to run queries against")
          /\ UNCHANGED queries
     ELSE \/ /\ Exit(2, "Query file not found")
             /\ UNCHANGED queries
          \/ /\ Exit(2, "Failed to load queries")
             /\ UNCHANGED queries
          \/ /\ \E qs \in QueryLists : queries' = Artifact(qs)
             /\ pc' = "run_queries"
             /\ UNCHANGED <<exit_code, stderr>>
  /\ UNCHANGED <<args, flights, all_errors, next_ln, had_parsing, files,
                 ret, parseVars, db_json, errors_txt, response, fnVars>>

\* resp = run_queries_and_write_response(flights, queries), which may raise
\* when the response file cannot be written
run_queries_and_write_response ==
  /\ pc = "run_queries"
  /\ \/ /\ response' = Artifact(RunQueries(flights, queries.data))
        /\ Exit(0, "")
     \/ /\ Exit(2, "Error writing response file")
        /\ UNCHANGED response
  /\ UNCHANGED <<args, flights, all_errors, next_ln, had_parsing, files,
                 ret, parseVars, db_json, errors_txt, queries, fnVars>>

Next ==
  \/ LoadDb
  \/ StartParsing
  \/ InputFile
  \/ InputDir
  \/ DirLoop
  \/ ReadLine
  \/ ParseReturn
  \/ CheckQuery
  \/ WriteDb
  \/ WriteErrors
  \/ LoadQueries
  \/ run_queries_and_write_response

Spec == Init /\ [][Next]_vars

(***************************************************************************)
(* The two pure functions applied to drawn inputs                          *)
(***************************************************************************)
\* arguments of validate_record
ValidateInputs ==
  {FID_ok, FID_bang, FID_short, FID_newline}
    \X {AP_JFK, AP_lower, AP_long}
    \X {AP_LAX, AP_lower}
    \X {DT_dec1_0900, DT_dec1_1200, DT_sep1_unpadded, DT_oct1_0800,
        DT_slashes, DT_feb29}
    \X {DT_dec1_0900, DT_dec1_1200, DT_sep1_unpadded, DT_oct1_0800,
        DT_slashes, DT_feb29}
    \X {PR_199_99, PR_neg, PR_zero, PR_abc, PR_nan, PR_inf}

\* the fields of the records flight_matches_query is applied to
RecordInputs ==
  {FID_ok, FID_ok2}
    \X {AP_JFK, AP_LAX}
    \X {AP_LAX}
    \X {DT_dec1_0900, DT_sep1_unpadded, DT_slashes}
    \X {DT_dec1_1200, DT_oct1_0800}
    \X {PR_199_99, PR_250, PR_abc}

\* the queries flight_matches_query is applied to: every subset of the six
\* keys, the values being strings
QueryInputs ==
  {MakeQuery(a) :
     a \in {Absent, FID_ok}
             \X {Absent, AP_JFK}
             \X {Absent, AP_LAX}
             \X {Absent, DT_oct1_0000, DT_dec1_0900}
             \X {Absent, DT_dec31_0000, DT_oct1_0800}
             \X {Absent, PR_200, PR_199_99, PR_abc, PR_nan}}

\* main is not running
MainOff ==
  /\ args = [input_file |-> "none", input_dir |-> "none",
             json_db |-> "none", query_file |-> "none"]
  /\ pc = "off"
  /\ MainIdle

InitValidate ==
  /\ MainOff
  /\ fields \in ValidateInputs
  /\ q = MakeQuery(<<Absent, Absent, Absent, Absent, Absent, Absent>>)
  /\ issues = <<>>
  /\ matched = FALSE
  /\ done = {}

InitQuery ==
  /\ MainOff
  /\ fields \in RecordInputs
  /\ q \in QueryInputs
  /\ issues = <<>>
  /\ matched = FALSE
  /\ done = {}

\* issues = validate_record(fields)
CallValidate ==
  /\ "validate" \notin done
  /\ issues' = validate_record(fields)
  /\ done' = done \cup {"validate"}
  /\ UNCHANGED <<mainVars, fields, q, matched>>

\* matched = flight_matches_query(f, q), f the record of the six fields
CallMatch ==
  /\ "match" \notin done
  /\ matched' = flight_matches_query(MakeFlight(fields), q)
  /\ done' = done \cup {"match"}
  /\ UNCHANGED <<mainVars, fields, q, issues>>

NextValidate == CallValidate

NextQuery ==
  \/ CallValidate
  \/ CallMatch

SpecValidate == InitValidate /\ [][NextValidate]_vars

SpecQuery == InitQuery /\ [][NextQuery]_vars

(***************************************************************************)
(* Properties of validate_record                                           *)
(***************************************************************************)
\* position of a reason in the fixed rule order
ReasonIndex(r) == CHOOSE i \in 1..Len(AllReasons) : AllReasons[i] = r

Has(seq, x) == \E k \in 1..Len(seq) : seq[k] = x

\* which of the seven rules the six fields break
RuleFails(f) ==
  <<~MatchFlightId(f[1]),
    ~MatchAirport(f[2]),
    ~MatchAirport(f[3]),
    ~StrpOk(f[4]),
    ~StrpOk(f[5]),
    StrpOk(f[4]) /\ StrpOk(f[5]) /\ StrpTime(f[5]) <= StrpTime(f[4]),
    ~PriceOk(f[6])>>

\* C1: validate_record returns exactly the reasons of the rules that fail,
\* each at most once and in the fixed rule order; an earlier failure never
\* suppresses a later one, and the result is empty iff every rule holds.
C1_ReasonsInRuleOrder ==
  "validate" \in done =>
    /\ \A k \in 1..Len(issues) : Has(AllReasons, issues[k])
    /\ \A i \in 1..Len(AllReasons) :
         Has(issues, AllReasons[i]) <=> RuleFails(fields)[i]
    /\ \A k1, k2 \in 1..Len(issues) :
         k1 < k2 => ReasonIndex(issues[k1]) < ReasonIndex(issues[k2])
    /\ (issues = <<>>) <=> (\A i \in 1..Len(AllReasons) : ~RuleFails(fields)[i])

\* the spec's example A!,jkf,LAX,...: two reasons, in rule order, with a
\* third independent one after them
C1_Witness ==
  /\ "validate" \in done
  /\ fields[1] = FID_bang
  /\ fields[2] = AP_lower
  /\ issues = <<"Invalid flight_id", "Invalid origin", "Invalid price">>

\* C2: "Arrival not after departure" is emitted iff both datetimes parsed
\* and arrival is not chronologically later than departure; it never
\* appears together with an invalid-datetime reason.
C2_ArrivalCheckOnlyWhenBothParsed ==
  "validate" \in done =>
    /\ Has(issues, "Arrival not after departure") <=>
         /\ StrpOk(fields[4])
         /\ StrpOk(fields[5])
         /\ ~(StrpTime(fields[5]) > StrpTime(fields[4]))
    /\ (\/ Has(issues, "Invalid departure_datetime")
        \/ Has(issues, "Invalid arrival_datetime"))
         => ~Has(issues, "Arrival not after departure")

\* arrival earlier than departure on the same day
C2_Witness ==
  /\ "validate" \in done
  /\ fields[4] = DT_dec1_1200
  /\ fields[5] = DT_dec1_0900
  /\ Has(issues, "Arrival not after departure")

(***************************************************************************)
(* Properties of flight_matches_query                                      *)
(***************************************************************************)
\* x <= y on floats; every comparison with nan is False
FloatLE(x, y) ==
  IF x.kind = "nan" \/ y.kind = "nan" THEN FALSE
  ELSE IF y.kind = "inf" /\ y.n > 0 THEN TRUE
  ELSE IF x.kind = "inf" /\ x.n < 0 THEN TRUE
  ELSE IF x.kind = "inf" \/ y.kind = "inf" THEN FALSE
  ELSE x.n * y.d <= y.n * x.d

\* the predicate a present key of the query puts on the record
KeyHolds(f, qq, key) ==
  CASE key \in {"flight_id", "origin", "destination"} -> f[key] = qq[key]
    [] key = "price" ->
         /\ FloatOk(qq[key])
         /\ FloatOk(f[key])
         /\ FloatLE(FloatVal(f[key]), FloatVal(qq[key]))
    [] key = "departure_datetime" -> ~StrLess(f[key], qq[key])
    [] key = "arrival_datetime" -> ~StrLess(qq[key], f[key])

\* C5: flight_matches_query returns true iff every key present in the
\* query holds (exact equality; record price <= query price, an unparsable
\* query price never matching; departure >= ; arrival <=).
C5_MatchIffEveryPresentKeyHolds ==
  "match" \in done =>
    (matched <=> \A key \in DOMAIN q : KeyHolds(MakeFlight(fields), q, key))

\* the zero-padded form YYYY-MM-DD HH:MM of a valid date and time
IsFixedFormat(s) ==
  /\ Len(s) = 16
  /\ \A i \in 1..16 :
       CASE i \in {5, 8} -> s[i] = "-"
         [] i = 11 -> s[i] = " "
         [] i = 14 -> s[i] = ":"
         [] OTHER -> s[i] \in Digits
  /\ StrpOk(s)

\* C6: for a record accepted by validate_record and query datetimes in the
\* fixed format, the departure (>=) and arrival (<=) filters decide as the
\* chronological comparison of the two datetimes decides.
C6_StringOrderIsChronological ==
  ( /\ done = {"validate", "match"}
    /\ issues = <<>>
    /\ DOMAIN q \subseteq {"departure_datetime", "arrival_datetime"}
    /\ \A key \in DOMAIN q : IsFixedFormat(q[key]) )
  =>
    (matched <=>
       /\ "departure_datetime" \in DOMAIN q =>
            StrpTime(fields[4]) >= StrpTime(q["departure_datetime"])
       /\ "arrival_datetime" \in DOMAIN q =>
            StrpTime(fields[5]) <= StrpTime(q["arrival_datetime"]))

(***************************************************************************)
(* Properties of parse_csv_file and main                                   *)
(***************************************************************************)
IsPrefix(a, b) == Len(a) <= Len(b) /\ SubSeq(b, 1, Len(a)) = a

\* the number of comma-separated fields of a line
FieldCount(line) == 1 + Cardinality({i \in 1..Len(line) : line[i] = ","})

\* a step of the loop over the lines of a source
LineHandled == pc = "parse" /\ pc' = "parse" /\ fh'.pos = fh.pos + 1

\* what the claim prescribes for the line just read: the new values of
\* valid and errors, by the precedence blank, comment, field count,
\* violations, record
LineOutcome ==
  LET line == RStripNewline(raw')
      content == Strip(line)
      trimmed == Parts(line)
      entry(reason) == <<ln, line, reason>>
  IN IF content = <<>>
     THEN valid' = valid /\ errors' = errors
     ELSE IF Head(content) = "#"
     THEN valid' = valid /\ errors' = Append(errors, entry(<<"Comment">>))
     ELSE IF FieldCount(line) # 6
     THEN /\ valid' = valid
          /\ errors' = Append(errors, entry(<<"Invalid number of fields">>))
     ELSE IF validate_record(trimmed) # <<>>
     THEN /\ valid' = valid
          /\ errors' = Append(errors, entry(Join(validate_record(trimmed))))
     ELSE /\ valid' = Append(valid, MakeFlight(trimmed))
          /\ errors' = errors

\* C3: parse_csv_file maps every line to exactly one outcome by the
\* precedence blank / comment / field count / violations / record, never
\* both a record and an error entry, and the loop goes on after a rejected
\* line: it is left only when the source is exhausted.
C3_OneOutcomePerLine ==
  [][ /\ LineHandled =>
           /\ LineOutcome
           /\ Len(valid') + Len(errors') <= Len(valid) + Len(errors) + 1
      /\ (pc = "parse" /\ pc' # "parse") => fh.pos = fh.n /\ pc' = ret
    ]_vars

\* a source with a comment line, a blank line and a valid record
C3_Witness ==
  /\ pc = "parse"
  /\ fh.pos = 3
  /\ ln = start_line_no + 3
  /\ Len(valid) = 1
  /\ valid[1] = MakeFlight(<<FID_ok, AP_JFK, AP_LAX, DT_dec1_0900,
                             DT_dec1_1200, PR_199_99>>)
  /\ Len(errors) = 1
  /\ errors[1][3] = <<"Comment">>

\* the line numbers of a list of error entries
StrictlyIncreasing(es) ==
  \A i, j \in 1..Len(es) : i < j => es[i][1] < es[j][1]

\* Some source has been parsed
SomeSourceParsed == ret # "none"

\* C4: the line counter is never reset and advances by one per line read,
\* blank lines included: parse_csv_file starts at main's counter and
\* returns its start plus the number of lines of the source, and the line
\* numbers of the merged error entries are strictly increasing, across
\* source boundaries too.
C4_ContinuousLineNumbers ==
  /\ pc = "parse" =>
       /\ start_line_no = next_ln
       /\ ln = start_line_no + fh.pos
       /\ StrictlyIncreasing(all_errors \o errors)
       /\ \A i \in 1..Len(errors) :
            errors[i][1] >= start_line_no /\ errors[i][1] < ln
  /\ (pc # "parse" /\ SomeSourceParsed) => next_ln = start_line_no + fh.n
  /\ StrictlyIncreasing(all_errors)
  /\ \A i \in 1..Len(all_errors) :
       all_errors[i][1] >= 1 /\ all_errors[i][1] < next_ln

\* error entries of two sources, the second source starting after line 1
C4_Witness ==
  /\ pc = "check_query"
  /\ start_line_no > 1
  /\ Len(all_errors) >= 2
  /\ all_errors[1][1] < start_line_no
  /\ all_errors[Len(all_errors)][1] >= start_line_no

ParseMode == args.json_db = "none"

RecordValid(f) == validate_record(FlightFields(f)) = <<>>

\* C7: in parse mode every record of the record set, and of the written
\* database, has zero violations when its stored fields are validated
\* again, and the record set only grows at its end.
C7_RecordsValidAndAppendOnly ==
  /\ [](ParseMode =>
          /\ \A i \in 1..Len(flights) : RecordValid(flights[i])
          /\ \A i \in 1..Len(valid) : RecordValid(valid[i])
          /\ db_json.written => db_json.data = flights)
  /\ [][ParseMode =>
          /\ IsPrefix(flights, flights')
          /\ (pc = "parse" /\ pc' = "parse") => IsPrefix(valid, valid')
          /\ db_json.written => db_json' = db_json]_vars

\* a database of two records has been written
C7_Witness ==
  /\ ParseMode
  /\ pc = "exit"
  /\ db_json.written
  /\ Len(db_json.data) = 2
  /\ db_json.data[1] # db_json.data[2]

\* the diagnostics of an I/O failure, of a missing file or directory and
\* of malformed JSON
ResourceErrors ==
  {"Error parsing file", "Error writing DB file",
   "Error writing errors file", "Error writing response file",
   "Input file not found", "Input directory not found",
   "JSON DB file not found", "Failed to load JSON DB",
   "Query file not found", "Failed to load queries"}

\* a valid invocation in parse mode, no resource error having occurred
ValidParseRun ==
  /\ ParseMode
  /\ args.input_file = "path" \/ args.input_dir = "path"
  /\ stderr \notin ResourceErrors

\* every source has been read to its end
AllSourcesRead == files = <<>> /\ fh.pos = fh.n /\ ~fh.open

\* C8 as stated: a valid run over existing, readable sources ends with
\* exit code 0 whatever lines were rejected.
C8_AsStated ==
  (pc = "exit" /\ ValidParseRun) => (AllSourcesRead /\ exit_code = 0)

\* C8 as amended: such a run reads every line of every source and writes
\* the database; it ends with exit code 0 unless -q was given and no
\* record was accepted, and then it ends with exit code 2 ("No flights
\* loaded to run queries against").
C8_Amended ==
  (pc = "exit" /\ ValidParseRun) =>
    /\ AllSourcesRead
    /\ db_json.written
    /\ IF args.query_file = "path" /\ flights = <<>>
       THEN /\ exit_code = 2
            /\ stderr = "No flights loaded to run queries against"
       ELSE exit_code = 0 /\ stderr = ""

\* a run with rejected lines and an accepted one, queries answered
C8_Witness ==
  /\ pc = "exit"
  /\ ValidParseRun
  /\ args.query_file = "path"
  /\ Len(all_errors) >= 2
  /\ Len(flights) >= 1
  /\ response.written
  /\ exit_code = 0

QueryWithoutDb ==
  /\ args.query_file # "none"
  /\ args.json_db = "none"
  /\ args.input_file = "none"
  /\ args.input_dir = "none"

\* C9: a run with -q and none of -j, -i, -d ends with a non-zero exit code
\* and has written no database, no error log and no response, and has not
\* read the query file.
C9_QueryWithoutDbFailsEarly ==
  QueryWithoutDb =>
    /\ ~db_json.written
    /\ ~errors_txt.written
    /\ ~response.written
    /\ ~queries.written
    /\ pc = "exit" => exit_code # 0

C9_Witness ==
  /\ QueryWithoutDb
  /\ pc = "exit"
  /\ exit_code = 2
  /\ stderr = "-q used without loading a DB or parsing CSVs"

\* C10: one result per query, in query order, each holding the query as
\* read and the records of the record set that match it, in record-set
\* order.
C10_OneResultPerQueryInOrder ==
  response.written =>
    /\ Len(response.data) = Len(queries.data)
    /\ \A i \in 1..Len(response.data) :
         /\ response.data[i].query = queries.data[i]
         /\ response.data[i].matches =
              SelectSeq(flights,
                        LAMBDA f : flight_matches_query(f, queries.data[i]))
    /\ ParseMode => db_json.written /\ db_json.data = flights

\* two different queries answered, the second matched by two records
C10_Witness ==
  /\ response.written
  /\ Len(response.data) = 2
  /\ response.data[1].query # response.data[2].query
  /\ Len(response.data[1].matches) = 1
  /\ Len(response.data[2].matches) = 2
  /\ response.data[2].matches[1] # response.data[2].matches[2]

====
